---- MODULE Spec2Model ----
(***************************************************************************)
(* A model of Zap.py: the retrying HTTP layer (ZendeskHttp._get_json),     *)
(* the time-window planner (buildWindowsUtc), the harvest loop             *)
(* (harvestTicketsInWindows) and the caching Resolver.                     *)
(*                                                                         *)
(* Each component has its own specification (SpecHttp, SpecPlan,           *)
(* SpecHarvest, SpecResolver).  The variables of the components a          *)
(* specification does not exercise stay at their initial values.           *)
(***************************************************************************)
EXTENDS Integers, Sequences, FiniteSets, TLC

VARIABLES
    \* ---- ZendeskHttp._get_json ----
    hPc,        \* "loop": at the top of `while True`; "returned"; "exit" (sys.exit(1))
    nTry,       \* the attempt counter nTry
    aResp,      \* the outcome of each self.o.get(...) issued so far (the server's inputs)
    aSleeps,    \* the argument of each time.sleep(...) performed so far
    sExit,      \* which diagnostic was printed before sys.exit(1); "" if none
    \* ---- buildWindowsUtc ----
    pPc,        \* "call", "returned", "exit" (sys.exit(1)), "raise" (uncaught ValueError)
    sDateExpr,  \* the --date argument
    sStartTime, \* the --start argument
    sEndTime,   \* the --end argument
    nowMnl,     \* datetime.now(tzMnl): [day, minute]
    aOut,       \* the returned list of (startUtc, endUtc, label)
    nBranch,    \* which branch of the default shift selection ran (0: none)
    pErr,       \* why the call failed; "" if it did not
    \* ---- harvestTicketsInWindows ----
    vPc,        \* "search", "bulk", "returned", "exit" (a _get_json call ended in sys.exit)
    nWindows,   \* len(aWindowsUtc)
    iWin,       \* index of the window being searched
    sPage,      \* TRUE while the inner `while sPage` has a page to fetch
    nPages,     \* pages fetched for the current window
    seen,       \* the set `seen`
    aIds,       \* the list aIds
    iChunk,     \* the loop variable i of the bulk-fetch loop
    aAll,       \* the list aAll
    vMatched,   \* history: the <<window, raw id>> pairs the search pages reported as tickets
    aBulkReqs,  \* history: the ID list of every show_many request sent
    aSearchLog, \* history: the [win, page, next] of every search page fetched, in order
    \* ---- Resolver ----
    rPc,        \* "idle", the kind ("org", "usr", "grp") whose _fetch_batch call comes next, "done", or "exit"
    org, usr, grp,   \* the three caches self.org, self.usr, self.grp
    aChunk,     \* the argument aTickets of the running preload
    aPend,      \* the sets aOrg, aUsr, aGrp collected by the running preload
    aLookups,   \* history: the [kind, ids] of the lookups the running preload has sent
    aSent,      \* history: per kind, the ids sent in any lookup so far
    aRead,      \* the last org_name/user_name/group_name call: [kind, v, name]
    \* ---- ZendeskHttp.next_link ----
    lPc,        \* "call", "returned"
    dJ,         \* the argument: the "links" and "next_page" members of a document
    sL,         \* the value returned
    \* ---- main, lines 482-494: the custom-field cells of one row ----
    jPc,        \* "call", "returned"
    aFlds,      \* the list aFlds: (sName, sId) of every FieldSpec, in file order
    aCustom,    \* the "custom_fields" member of the ticket t
    dRow,       \* the cells of dRow that the loop over aFlds has set
    \* ---- main, lines 436-515 ----
    mPc,        \* the stage main is at: "whoami", "windows", "harvest", "chunks", "write", "raw", "done", "exit"
    nChunkSize, \* nChunkSize
    dServer,    \* the entities the server knows, by kind and id: what show_many answers
    aTickets,   \* aTickets, the harvested records
    iMain,      \* the loop variable i of the chunk loop
    dSeen,      \* the set dSeen
    aRowsOut,   \* the list aRowsOut
    dCache,     \* res.org, res.usr, res.grp
    aFiles,     \* the output files opened for writing so far
    aReqs,      \* history: the kind of every request that succeeded, in order
    sFatal      \* the kind of the request that ended in sys.exit(1); "" if none

httpVars == <<hPc, nTry, aResp, aSleeps, sExit>>
planVars == <<pPc, sDateExpr, sStartTime, sEndTime, nowMnl, aOut, nBranch, pErr>>
harvVars == <<vPc, nWindows, iWin, sPage, nPages, seen, aIds, iChunk, aAll, vMatched, aBulkReqs,
              aSearchLog>>
resVars  == <<rPc, org, usr, grp, aChunk, aPend, aLookups, aSent, aRead>>
linkVars == <<lPc, dJ, sL>>
projVars == <<jPc, aFlds, aCustom, dRow>>
mainVars == <<mPc, nChunkSize, dServer, aTickets, iMain, dSeen, aRowsOut, dCache, aFiles, aReqs, sFatal>>
auxVars  == <<linkVars, projVars, mainVars>>
vars == <<httpVars, planVars, harvVars, resVars, auxVars>>

Min(a, b) == IF a <= b THEN a ELSE b
Max(a, b) == IF a >= b THEN a ELSE b

RECURSIVE SumSeq(_)
SumSeq(s) == IF s = <<>> THEN 0 ELSE Head(s) + SumSeq(Tail(s))

(***************************************************************************)
(* ZendeskHttp._get_json                                                   *)
(***************************************************************************)
\* A retry budget one attempt larger than the one in the code.
nMaxRetriesPlusOne == 6 + 1
nMaxRetries == 6
nBackoffCap == 30
nRetryAfterDefault == 2
nRetryAfterFallback == 2

\* A Retry-After header: absent, text that float() rejects, or a decimal
\* number, held in tenths of a second ("2.5" is 25).
NoHeader == [kind |-> "absent", tenths |-> 0]
RetryAfterTenths == {0, 25, 30}
RetryAfterHeaders ==
    {NoHeader, [kind |-> "text", tenths |-> 0]}
        \cup {[kind |-> "num", tenths |-> t] : t \in RetryAfterTenths}

\* What one self.o.get(...) can produce: a RequestException (net), or a
\* response with a status, a Retry-After header and a body that r.json()
\* can (json) or cannot parse.
Outcomes ==
    {[net |-> TRUE, status |-> 0, hdr |-> NoHeader, json |-> FALSE]}
        \cup {[net |-> FALSE, status |-> 429, hdr |-> h, json |-> FALSE] :
                 h \in RetryAfterHeaders}
        \cup {[net |-> FALSE, status |-> s, hdr |-> NoHeader, json |-> FALSE] :
                 s \in {500, 599, 401, 403, 404}}
        \cup {[net |-> FALSE, status |-> s, hdr |-> NoHeader, json |-> j] :
                 s \in {100, 200, 304}, j \in BOOLEAN}

\* min(2 ** (nTry - 1), 30)
BackoffOffByOne(n) == Min(2 ^ n, nBackoffCap)
Backoff(n) == Min(2 ^ (n - 1), nBackoffCap)

\* int(float(s)) of a decimal held in tenths: truncation toward zero.
IntOfFloat(t) == IF t >= 0 THEN t \div 10 ELSE -((-t) \div 10)

\* sRetry = r.headers.get("Retry-After", "2"); max(1, int(float(sRetry))),
\* and 2 when the conversion raises.
RetrySleepUnclamped(h) ==
    IF h.kind = "absent" THEN nRetryAfterDefault
    ELSE IF h.kind = "text" THEN nRetryAfterFallback
    ELSE IntOfFloat(h.tenths)
RetrySleepIgnoresHeader(h) == nRetryAfterFallback
RetrySleep(h) ==
    IF h.kind = "absent" THEN Max(1, nRetryAfterDefault)
    ELSE IF h.kind = "text" THEN nRetryAfterFallback
    ELSE Max(1, IntOfFloat(h.tenths))

IsServerError(s) == 500 <= s /\ s < 600
IsAuthFailureOnly401(s) == s = 401
IsAuthFailure(s) == s \in {401, 403}
\* requests' Response.raise_for_status raises HTTPError for 4xx and 5xx only.
RaisesForStatus(s) == 400 <= s /\ s < 600

\* time.sleep(d); continue
SleepAndContinue(d) ==
    /\ aSleeps' = Append(aSleeps, d)
    /\ hPc' = "loop"
    /\ UNCHANGED sExit

\* print(msg); sys.exit(1)
ExitWith(msg) ==
    /\ hPc' = "exit"
    /\ sExit' = msg
    /\ UNCHANGED aSleeps

\* One pass through the body of `while True` with the GET ending in o.
GetJsonIteration(o) ==
    /\ hPc = "loop"
    /\ nTry' = nTry + 1
    /\ aResp' = Append(aResp, o)
    /\ IF o.net
         THEN IF nTry' >= nMaxRetries
                THEN ExitWith("network")
                ELSE SleepAndContinue(Backoff(nTry'))
       ELSE IF o.status = 429
         THEN IF nTry' >= nMaxRetries
                THEN ExitWith("ratelimit")
                ELSE SleepAndContinue(RetrySleep(o.hdr))
       ELSE IF IsServerError(o.status)
         THEN IF nTry' >= nMaxRetries
                THEN ExitWith("server")
                ELSE SleepAndContinue(Backoff(nTry'))
       ELSE IF IsAuthFailure(o.status)
         THEN ExitWith("auth")
       ELSE IF RaisesForStatus(o.status)
         THEN ExitWith("http")
       ELSE IF o.json
         THEN /\ hPc' = "returned"
              /\ UNCHANGED <<aSleeps, sExit>>
       ELSE ExitWith("json")
    /\ UNCHANGED <<planVars, harvVars, resVars, auxVars>>

GetJson == \E o \in Outcomes : GetJsonIteration(o)

HttpInit ==
    /\ hPc = "loop"
    /\ nTry = 0
    /\ aResp = <<>>
    /\ aSleeps = <<>>
    /\ sExit = ""

HttpOff ==
    /\ hPc = "off"
    /\ nTry = 0
    /\ aResp = <<>>
    /\ aSleeps = <<>>
    /\ sExit = ""

(***************************************************************************)
(* buildWindowsUtc                                                         *)
(***************************************************************************)
MaxTerms == 2
nUtcOffsetSec == 28800
nDaySec == 86400

\* A date token that matches \d{4}-\d{2}-\d{2}; strptime("%Y-%m-%d") rejects
\* the ones that are no calendar date (2025-02-30).
DateStrings ==
    {[y |-> 2025, m |-> 1, d |-> 1],
     [y |-> 2025, m |-> 2, d |-> 1],
     [y |-> 2025, m |-> 2, d |-> 30]}
DaysInMonth(y, m) ==
    IF m = 2 THEN (IF y % 4 = 0 /\ (y % 100 # 0 \/ y % 400 = 0) THEN 29 ELSE 28)
    ELSE IF m \in {4, 6, 9, 11} THEN 30 ELSE 31
IsCalendarDate(s) == s.m \in 1..12 /\ s.d \in 1..DaysInMonth(s.y, s.m)
RECURSIVE DaysBeforeMonth(_, _)
DaysBeforeMonth(y, m) ==
    IF m <= 1 THEN 0 ELSE DaysBeforeMonth(y, m - 1) + DaysInMonth(y, m - 1)
\* strptime(s, "%Y-%m-%d").date(), as the day's ordinal within 2025.
StrpDate(s) == DaysBeforeMonth(s.y, s.m) + s.d

\* One OR-separated part of the expression: it matches the regex of line
\* 154 with groups d0 and d1 ("range"), or it does not ("bad").
BadTerm == [kind |-> "bad", d0 |-> [y |-> 0, m |-> 0, d |-> 0], d1 |-> [y |-> 0, m |-> 0, d |-> 0]]
Terms == {BadTerm} \cup {[kind |-> "range", d0 |-> a, d1 |-> b] : a \in DateStrings, b \in DateStrings}
RECURSIVE SeqsUpTo(_, _)
SeqsUpTo(S, n) ==
    IF n = 0 THEN {<<>>}
    ELSE LET shorter == SeqsUpTo(S, n - 1)
         IN  shorter \cup {Append(q, x) : q \in {r \in shorter : Len(r) = n - 1}, x \in S}
\* The --date argument after re.split: <<>> stands for None or "".
DateExprs == SeqsUpTo(Terms, MaxTerms)

\* The --start / --end argument: None or "" ("none"), text that
\* strptime("%I:%M %p") rejects ("bad"), or a 12-hour clock time.
NoTime == [kind |-> "none", h |-> 0, m |-> 0, pm |-> FALSE]
TimeArgs ==
    {NoTime, [kind |-> "bad", h |-> 0, m |-> 0, pm |-> FALSE]}
        \cup {[kind |-> "time", h |-> 12, m |-> 0, pm |-> FALSE],
              [kind |-> "time", h |-> 10, m |-> 0, pm |-> FALSE],
              [kind |-> "time", h |-> 6, m |-> 30, pm |-> TRUE]}
\* strptime(s, "%I:%M %p").time(), in minutes after midnight.
StrpTime(a) == ((a.h % 12) + (IF a.pm THEN 12 ELSE 0)) * 60 + a.m

\* def T(h, m): return datetime.time(hour=h, minute=m)
T(h, m) == h * 60 + m

\* datetime.combine(day, time, tzMnl).astimezone(utc), in seconds; Manila is
\* UTC+8 all year.
CombineUtc(day, minute, second) == day * nDaySec + minute * 60 + second - nUtcOffsetSec
Window(s, e, l) == [startUtc |-> s, endUtc |-> e, label |-> l]

\* The if/elif/elif/else of lines 166-185 on t = nowMnl.time().
ShiftBranchEarlyEvening(t) ==
    IF t < T(1, 30) THEN 1
    ELSE IF t < T(9, 0) THEN 2
    ELSE IF t < T(18, 30) THEN 3
    ELSE 4
ShiftBranch(t) ==
    IF t < T(1, 30) THEN 1
    ELSE IF t < T(9, 30) THEN 2
    ELSE IF t < T(18, 30) THEN 3
    ELSE 4
\* The window each branch appends, d = nowMnl.date().
ShiftWindow(b, d) ==
    IF b = 1 THEN Window(CombineUtc(d, T(13, 0), 0),
                         CombineUtc(d, T(1, 30), 0) + nDaySec, "afternoon")
    ELSE IF b = 2 THEN Window(CombineUtc(d - 1, T(21, 30), 0),
                              CombineUtc(d, T(9, 30), 0), "evening")
    ELSE IF b = 3 THEN Window(CombineUtc(d, T(18, 30), 0),
                              CombineUtc(d + 1, T(6, 30), 0), "morning")
    ELSE Window(CombineUtc(d, T(18, 30), 0),
                CombineUtc(d + 1, T(6, 30), 0), "morning")

\* The window of one date sub-range without a time window (lines 220-224).
DateOnlyWindow(r) ==
    Window(CombineUtc(StrpDate(r.d0), 0, 0),
           CombineUtc(StrpDate(r.d1), T(23, 59), 59), "date-only")

PlanReturn(out, b) ==
    /\ pPc' = "returned"
    /\ aOut' = out
    /\ nBranch' = b
    /\ pErr' = ""
\* print(msg); sys.exit(1)
PlanExit(msg) ==
    /\ pPc' = "exit"
    /\ pErr' = msg
    /\ UNCHANGED <<aOut, nBranch>>
\* strptime raises ValueError, which nothing catches.
PlanRaise ==
    /\ pPc' = "raise"
    /\ pErr' = "ValueError"
    /\ UNCHANGED <<aOut, nBranch>>

BuildWindowsUtc ==
    /\ pPc = "call"
    /\ LET aDateRanges == sDateExpr
           bDates == Len(aDateRanges) > 0
           bStart == sStartTime.kind # "none"
           bEnd   == sEndTime.kind # "none"
           tStart == StrpTime(sStartTime)
           tEnd   == StrpTime(sEndTime)
       IN
       IF \E i \in 1..Len(sDateExpr) : sDateExpr[i].kind = "bad"
         THEN PlanExit("InvalidExpression")
       ELSE IF ~bDates /\ ~bStart /\ ~bEnd
         THEN PlanReturn(<<ShiftWindow(ShiftBranch(nowMnl.minute), nowMnl.day)>>,
                         ShiftBranch(nowMnl.minute))
       ELSE IF (bStart \/ bEnd) /\ ~(bStart /\ bEnd)
         THEN PlanExit("IncompleteTimeWindow")
       ELSE IF (bStart \/ bEnd) /\ (sStartTime.kind = "bad" \/ sEndTime.kind = "bad")
         THEN PlanExit("InvalidTime")
       ELSE IF (bStart \/ bEnd) /\ tEnd <= tStart
         THEN PlanExit("NonPositiveWindow")
       ELSE IF bDates /\ bStart /\ bEnd /\ Len(aDateRanges) # 1
         THEN PlanExit("AmbiguousDateCount")
       ELSE IF ~bDates /\ bStart /\ bEnd
         THEN PlanReturn(<<Window(CombineUtc(nowMnl.day, tStart, 0),
                                  CombineUtc(nowMnl.day, tEnd, 0), "time-only")>>, 0)
       ELSE IF bDates /\ ~(bStart \/ bEnd)
         THEN IF \E i \in 1..Len(aDateRanges) :
                    ~IsCalendarDate(aDateRanges[i].d0) \/ ~IsCalendarDate(aDateRanges[i].d1)
                THEN PlanRaise
                ELSE PlanReturn([i \in 1..Len(aDateRanges) |-> DateOnlyWindow(aDateRanges[i])], 0)
       ELSE IF bDates /\ bStart /\ bEnd /\ Len(aDateRanges) = 1
         THEN IF aDateRanges[1].d0 # aDateRanges[1].d1
                THEN PlanExit("MultiDayRangeWithTime")
              ELSE IF ~IsCalendarDate(aDateRanges[1].d0)
                THEN PlanRaise
              ELSE PlanReturn(<<Window(CombineUtc(StrpDate(aDateRanges[1].d0), tStart, 0),
                                       CombineUtc(StrpDate(aDateRanges[1].d0), tEnd, 0),
                                       "date+time")>>, 0)
       ELSE PlanExit("InvalidCombination")
    /\ UNCHANGED <<sDateExpr, sStartTime, sEndTime, nowMnl>>
    /\ UNCHANGED <<httpVars, harvVars, resVars, auxVars>>

\* The instants datetime.now(tzMnl) is drawn from: every minute of the day
\* when the default shift window is asked for, two of them otherwise.
NowDays == {1, 31}
NowMinutes(bDefault) == IF bDefault THEN 0..1439 ELSE {0, 750}

PlanInit ==
    /\ pPc = "call"
    /\ sDateExpr \in DateExprs
    /\ sStartTime \in TimeArgs
    /\ sEndTime \in TimeArgs
    /\ nowMnl \in [day : NowDays,
                   minute : NowMinutes(sDateExpr = <<>> /\ sStartTime = NoTime /\ sEndTime = NoTime)]
    /\ aOut = <<>>
    /\ nBranch = 0
    /\ pErr = ""

(***************************************************************************)
(* harvestTicketsInWindows                                                 *)
(***************************************************************************)
MaxWindows == 2
MaxPages == 2
MaxResults == 1
MaxBulk == 2
nChunk == 100

\* The id values the server may report: JSON numbers, and a JSON string
\* that str() maps to the same text as the number 42.
RawIds == {[t |-> "int", v |-> 41], [t |-> "int", v |-> 42], [t |-> "str", v |-> 42]}
\* str(tid)
StrId(x) == ToString(x.v)
\* str(i) of an integer
Str(i) == ToString(i)

\* One entry of dJ["results"], and one search page: its results and
\* whether next_link(dJ) is a non-empty link.
Results == [result_type : {"ticket", "user"}, id : RawIds]
SearchPages == [results : SeqsUpTo(Results, MaxResults), next : BOOLEAN]
\* dT["tickets"] of one show_many response: whatever the server sends.
BulkResponses == SeqsUpTo([id : RawIds], MaxBulk)

\* The for loop of lines 252-258 over the results of one page.
RECURSIVE CollectIdsNoSeenCheck(_, _, _)
CollectIdsNoSeenCheck(rs, sn, ids) ==
    IF rs = <<>> THEN [seen |-> sn, aIds |-> ids]
    ELSE LET r == Head(rs)
         IN  IF r.result_type = "ticket"
               THEN CollectIdsNoSeenCheck(Tail(rs), sn \cup {r.id}, Append(ids, StrId(r.id)))
               ELSE CollectIdsNoSeenCheck(Tail(rs), sn, ids)
RECURSIVE CollectIds(_, _, _)
CollectIds(rs, sn, ids) ==
    IF rs = <<>> THEN [seen |-> sn, aIds |-> ids]
    ELSE LET r == Head(rs)
         IN  IF r.result_type = "ticket" /\ r.id \notin sn
               THEN CollectIds(Tail(rs), sn \cup {r.id}, Append(ids, StrId(r.id)))
               ELSE CollectIds(Tail(rs), sn, ids)

\* A slice that runs one id into the next chunk.
SliceOverlapping(ids, i) == SubSeq(ids, i + 1, Min(i + nChunk + 1, Len(ids)))
\* aIds[i:i+nChunk]
Slice(ids, i) == SubSeq(ids, i + 1, Min(i + nChunk, Len(ids)))

\* `while sPage` after sPage = next_link(dJ): is there a further page?
ContinuesNever(page) == FALSE
Continues(page) == page.next

\* One pass of `while sPage`: the page is fetched, its results collected and
\* the cursor followed; when the cursor ends, the next window starts, and
\* after the last window the function returns [] or turns to the bulk fetch.
SearchPage(page) ==
    /\ vPc = "search"
    /\ sPage
    /\ page.next => nPages + 1 < MaxPages
    /\ LET c == CollectIds(page.results, seen, aIds)
       IN  /\ seen' = c.seen
           /\ aIds' = c.aIds
           /\ vMatched' = vMatched \cup
                  {<<iWin, page.results[k].id>> :
                       k \in {j \in 1..Len(page.results) :
                                  page.results[j].result_type = "ticket"}}
           /\ aSearchLog' = Append(aSearchLog,
                                    [win |-> iWin, page |-> nPages, next |-> page.next])
           /\ IF Continues(page)
                THEN /\ nPages' = nPages + 1
                     /\ UNCHANGED <<vPc, iWin, sPage>>
              ELSE IF iWin < nWindows
                THEN /\ iWin' = iWin + 1
                     /\ nPages' = 0
                     /\ UNCHANGED <<vPc, sPage>>
              ELSE /\ sPage' = FALSE
                   /\ vPc' = IF c.aIds = <<>> THEN "returned" ELSE "bulk"
                   /\ UNCHANGED <<iWin, nPages>>
    /\ UNCHANGED <<nWindows, iChunk, aAll, aBulkReqs>>
    /\ UNCHANGED <<httpVars, planVars, resVars, auxVars>>

\* One pass of the loop of lines 265-270.
BulkFetch(dT) ==
    /\ vPc = "bulk"
    /\ aBulkReqs' = Append(aBulkReqs, Slice(aIds, iChunk))
    /\ aAll' = aAll \o dT
    /\ iChunk' = iChunk + nChunk
    /\ vPc' = IF iChunk' < Len(aIds) THEN "bulk" ELSE "returned"
    /\ UNCHANGED <<nWindows, iWin, sPage, nPages, seen, aIds, vMatched, aSearchLog>>
    /\ UNCHANGED <<httpVars, planVars, resVars, auxVars>>

\* A _get_json call of the harvest ends in sys.exit(1).
HarvestFatal ==
    /\ vPc \in {"search", "bulk"}
    /\ vPc' = "exit"
    /\ UNCHANGED <<nWindows, iWin, sPage, nPages, seen, aIds, iChunk, aAll, vMatched, aBulkReqs,
                    aSearchLog>>
    /\ UNCHANGED <<httpVars, planVars, resVars, auxVars>>

HarvInit ==
    /\ vPc = "search"
    /\ nWindows \in 1..MaxWindows
    /\ iWin = 1
    /\ sPage = TRUE
    /\ nPages = 0
    /\ seen = {}
    /\ aIds = <<>>
    /\ iChunk = 0
    /\ aAll = <<>>
    /\ vMatched = {}
    /\ aBulkReqs = <<>>
    /\ aSearchLog = <<>>

\* The harvest after its search loops, with n ids collected from the pages
\* of one window (per_page=100, so a page reports at most 100 new ids):
\* line 261.
MaxIds == 201
PagesFor(n) == IF n = 0 THEN 1 ELSE (n + nChunk - 1) \div nChunk
BulkInit ==
    \E n \in 0..MaxIds :
        /\ vPc = IF n = 0 THEN "returned" ELSE "bulk"
        /\ nWindows = 1
        /\ iWin = 1
        /\ sPage = FALSE
        /\ nPages = PagesFor(n) - 1
        /\ seen = {[t |-> "int", v |-> i] : i \in 1..n}
        /\ aIds = [i \in 1..n |-> Str(i)]
        /\ iChunk = 0
        /\ aAll = <<>>
        /\ vMatched = {<<1, [t |-> "int", v |-> i]>> : i \in 1..n}
        /\ aBulkReqs = <<>>
        /\ aSearchLog = [j \in 1..PagesFor(n) |->
                             [win |-> 1, page |-> j - 1, next |-> j < PagesFor(n)]]

(***************************************************************************)
(* Resolver                                                                *)
(***************************************************************************)
MaxChunkLen == 2

Kinds == {"org", "usr", "grp"}
\* The foreign-key ids of each kind that tickets and servers mention; 0
\* stands for a missing or null (falsy) field.
RefIds(kind) == IF kind = "usr" THEN {1, 2} ELSE {1}
Ticket(o, a, r, sb, g) ==
    [organization_id |-> o, assignee_id |-> a, requester_id |-> r,
     submitter_id |-> sb, group_id |-> g]
TicketPool ==
    {Ticket(0, 0, 0, 0, 0), Ticket(1, 0, 0, 0, 0), Ticket(0, 1, 0, 0, 0),
     Ticket(0, 0, 2, 0, 0), Ticket(0, 0, 0, 2, 1), Ticket(1, 1, 2, 1, 1)}
Chunks == SeqsUpTo(TicketPool, MaxChunkLen) \ {<<>>}

\* An entity's "name" in a show_many response: null, or a text.
Null == "null"
ServerNames == {Null, "Acme"}
\* x.get("name") or ""
NameOrEmpty(n) == IF n = Null \/ n = "" THEN "" ELSE n
\* d.get(<kind>s, []): the entities of one response, by id.
Responses(kind) == UNION {[S -> ServerNames] : S \in SUBSET RefIds(kind)}

\* The ids of the chunk's tickets under the given fields, as text, falsy
\* ones left out (lines 135-140).
FieldIds(chunk, fields) ==
    {Str(chunk[i][f]) : <<i, f>> \in
        {x \in (1..Len(chunk)) \X fields : chunk[x[1]][x[2]] # 0}}

\* The ticket fields whose ids go into aOrg, aUsr, aGrp (lines 135-139).
KindFields(kind) ==
    IF kind = "org" THEN {"organization_id"}
    ELSE IF kind = "usr" THEN {"assignee_id", "requester_id", "submitter_id"}
    ELSE {"group_id"}

Cache(kind) == IF kind = "org" THEN org ELSE IF kind = "usr" THEN usr ELSE grp
\* A merge that keeps only the entities of the response.
MergeReplacing(c, resp) ==
    [k \in {Str(i) : i \in DOMAIN resp} |->
        NameOrEmpty(resp[CHOOSE i \in DOMAIN resp : Str(i) = k])]
\* for x in d.get(...): cache[str(x.get("id"))] = x.get("name") or ""
Merge(c, resp) ==
    LET new == {Str(i) : i \in DOMAIN resp}
    IN  [k \in DOMAIN c \cup new |->
            IF k \in new
              THEN NameOrEmpty(resp[CHOOSE i \in DOMAIN resp : Str(i) = k])
              ELSE c[k]]

\* Uncached without the cache test: every collected id is looked up.
UncachedIgnoringCache(kind) == aPend[kind]

\* [i for i in aX if i not in self.<cache>]
Uncached(kind) == {i \in aPend[kind] : i \notin DOMAIN Cache(kind)}

NextFetch(kind) == IF kind = "org" THEN "usr" ELSE IF kind = "usr" THEN "grp" ELSE "done"

\* No name reader has been called since the last preload.
NoRead == [kind |-> "none", v |-> 0, name |-> ""]

\* preload_from_tickets, lines 132-140: the three sets are collected.
PreloadCollect(chunk) ==
    /\ rPc = "idle"
    /\ aChunk' = chunk
    /\ aPend' = [org |-> FieldIds(chunk, {"organization_id"}),
                 usr |-> FieldIds(chunk, {"assignee_id", "requester_id", "submitter_id"}),
                 grp |-> FieldIds(chunk, {"group_id"})]
    /\ aLookups' = <<>>
    /\ rPc' = "org"
    /\ aRead' = NoRead
    /\ UNCHANGED <<org, usr, grp, aSent>>
    /\ UNCHANGED <<httpVars, planVars, harvVars, auxVars>>

\* One of lines 141-143: self._fetch_batch(kind, <uncached ids>), with the
\* server answering resp when a lookup is sent.
FetchBatch(kind, resp) ==
    /\ rPc = kind
    /\ LET ids == Uncached(kind)
       IN  IF ids = {}
             THEN UNCHANGED <<org, usr, grp, aLookups, aSent>>
             ELSE /\ aLookups' = Append(aLookups, [kind |-> kind, ids |-> ids])
                  /\ aSent' = [aSent EXCEPT ![kind] = @ \cup ids]
                  /\ org' = IF kind = "org" THEN Merge(org, resp) ELSE org
                  /\ usr' = IF kind = "usr" THEN Merge(usr, resp) ELSE usr
                  /\ grp' = IF kind = "grp" THEN Merge(grp, resp) ELSE grp
    /\ rPc' = NextFetch(kind)
    /\ UNCHANGED <<aChunk, aPend, aRead>>
    /\ UNCHANGED <<httpVars, planVars, harvVars, auxVars>>

\* preload_from_tickets returns after line 143: its locals are gone.
PreloadReturn ==
    /\ rPc = "done"
    /\ rPc' = "idle"
    /\ aChunk' = <<>>
    /\ aPend' = [org |-> {}, usr |-> {}, grp |-> {}]
    /\ aLookups' = <<>>
    /\ UNCHANGED <<org, usr, grp, aSent, aRead>>
    /\ UNCHANGED <<httpVars, planVars, harvVars, auxVars>>

\* The arguments of the name readers: a ticket's foreign-key field, 0 when
\* the field is missing or null.
ReadArgs == {0} \cup RefIds("usr")
\* A cache read that looks the raw value up without str(): the keys are all
\* text, so it never hits.
CacheGetRaw(c, v) == ""
\* <cache>.get(str(v), "")
CacheGet(c, v) == IF Str(v) \in DOMAIN c THEN c[Str(v)] ELSE ""
NameRead(kind, v) ==
    /\ rPc = "idle"
    /\ aRead' = [kind |-> kind, v |-> v, name |-> CacheGet(Cache(kind), v)]
    /\ UNCHANGED <<rPc, org, usr, grp, aChunk, aPend, aLookups, aSent>>
    /\ UNCHANGED <<httpVars, planVars, harvVars, auxVars>>
\* Lines 145-147.
org_name(v) == NameRead("org", v)
user_name(v) == NameRead("usr", v)
group_name(v) == NameRead("grp", v)

\* The _get_json call of a lookup ends in sys.exit(1).
FetchFatal ==
    /\ rPc \in Kinds
    /\ Uncached(rPc) # {}
    /\ rPc' = "exit"
    /\ UNCHANGED <<org, usr, grp, aChunk, aPend, aLookups, aSent, aRead>>
    /\ UNCHANGED <<httpVars, planVars, harvVars, auxVars>>

ResInit ==
    /\ rPc = "idle"
    /\ org = <<>>
    /\ usr = <<>>
    /\ grp = <<>>
    /\ aChunk = <<>>
    /\ aPend = [org |-> {}, usr |-> {}, grp |-> {}]
    /\ aLookups = <<>>
    /\ aSent = [org |-> {}, usr |-> {}, grp |-> {}]
    /\ aRead = NoRead

(***************************************************************************)
(* ZendeskHttp.next_link                                                   *)
(***************************************************************************)
\* What a member of a JSON object can be here: missing, null, or a text.
Absent == "absent"
None == "none"
Urls == {"u1", "u2", "u3"}
Members == {Absent, Null, ""} \cup Urls
\* The "links" member: missing, null, a non-object (a text), or an object
\* whose "next" member is any of the above.
Links ==
    {[kind |-> k, next |-> Absent] : k \in {"absent", "null", "text"}}
        \cup {[kind |-> "dict", next |-> m] : m \in Members}
Documents == [links : Links, next_page : Members]
\* dict.get(key) on a member: None when missing or null.
Get(m) == IF m = Absent \/ m = Null THEN None ELSE m
\* `not sL`
Falsy(v) == v = None \/ v = ""
\* Lines 95-98: dJ.get("links", {}).get("next"), None when that raises
\* (links is null or not an object).
PrimaryLink(d) ==
    IF d.links.kind = "absent" THEN None
    ELSE IF d.links.kind = "dict" THEN Get(d.links.next)
    ELSE None
\* next_link with the two fields consulted in the other order.
next_link_secondary_first(d) ==
    IF Falsy(Get(d.next_page)) THEN PrimaryLink(d) ELSE Get(d.next_page)
next_link(d) ==
    IF Falsy(PrimaryLink(d)) THEN Get(d.next_page) ELSE PrimaryLink(d)
NextLink ==
    /\ lPc = "call"
    /\ sL' = next_link(dJ)
    /\ lPc' = "returned"
    /\ UNCHANGED dJ
    /\ UNCHANGED <<httpVars, planVars, harvVars, resVars, projVars, mainVars>>
LinkInit ==
    /\ lPc = "call"
    /\ dJ \in Documents
    /\ sL = None
LinkOff ==
    /\ lPc = "off"
    /\ dJ = [links |-> [kind |-> "absent", next |-> Absent], next_page |-> Absent]
    /\ sL = None

(***************************************************************************)
(* main, lines 482-494: the cells of the custom columns                    *)
(***************************************************************************)
MaxFlds == 2
MaxCustom == 2

\* FieldSpecs: a display name and a field id as text, "" when the file has
\* no id for the row (line 400).
FieldNames == {"Priority", "Notes"}
FieldIdTexts == {"", "10001", "10002"}
FieldSpecs == SeqsUpTo([name : FieldNames, id : FieldIdTexts], MaxFlds)
\* One entry of t["custom_fields"]: its id as the server sent it (a number,
\* or a text of the same digits) and its value, null or a text.
CustomIds == {[t |-> "int", v |-> 10001], [t |-> "str", v |-> 10001], [t |-> "int", v |-> 10002]}
CustomValues == {Null, "High", "Low"}
\* t.get("custom_fields", []): missing, null, or a list of entries.
CustomFields ==
    {[kind |-> "absent", items |-> <<>>], [kind |-> "null", items |-> <<>>]}
        \cup {[kind |-> "list", items |-> q] :
                 q \in SeqsUpTo([id : CustomIds, value : CustomValues], MaxCustom)}

\* The for loop of lines 487-490: the value of the first entry whose
\* str(id) equals sId, None (Null) when the loop ends without a match.
RECURSIVE FirstMatch(_, _)
FirstMatch(items, sId) ==
    IF items = <<>> THEN Null
    ELSE IF StrId(Head(items).id) = sId THEN Head(items).value
    ELSE FirstMatch(Tail(items), sId)
\* Lines 483-493: v for one FieldSpec; iterating null raises TypeError,
\* which the except clause turns into None.
CellValue(cf, sId) ==
    IF sId = "" THEN ""
    ELSE LET vCf == IF cf.kind = "null" THEN Null ELSE FirstMatch(cf.items, sId)
         IN  IF vCf # Null THEN vCf ELSE ""
\* for sName, sTyp, sId in aFlds: ... dRow[sName] = v
RECURSIVE SetCells(_, _, _)
SetCells(flds, cf, row) ==
    IF flds = <<>> THEN row
    ELSE LET f == Head(flds)
         IN  SetCells(Tail(flds), cf,
                      [n \in DOMAIN row \cup {f.name} |->
                          IF n = f.name THEN CellValue(cf, f.id) ELSE row[n]])
NoCells == [n \in {} |-> ""]
ProjectCustom ==
    /\ jPc = "call"
    /\ dRow' = SetCells(aFlds, aCustom, NoCells)
    /\ jPc' = "returned"
    /\ UNCHANGED <<aFlds, aCustom>>
    /\ UNCHANGED <<httpVars, planVars, harvVars, resVars, linkVars, mainVars>>
ProjInit ==
    /\ jPc = "call"
    /\ aFlds \in FieldSpecs
    /\ aCustom \in CustomFields
    /\ dRow = NoCells
ProjOff ==
    /\ jPc = "off"
    /\ aFlds = <<>>
    /\ aCustom = [kind |-> "absent", items |-> <<>>]
    /\ dRow = NoCells

(***************************************************************************)
(* main, lines 436-515: who-am-I, windows, harvest, chunk loop, output     *)
(***************************************************************************)
MaxTickets == 3
MaxChunkSize == 3

\* A harvested ticket: its id, its foreign keys (0: missing or null) and
\* its status (null or a text).
MainTicket(i, o, a, r, g, st) ==
    [id |-> i, organization_id |-> o, assignee_id |-> a, requester_id |-> r,
     submitter_id |-> 0, group_id |-> g, status |-> st]
MainTicketPool ==
    {MainTicket(1, 1, 1, 2, 1, "open"), MainTicket(2, 0, 2, 0, 0, Null),
     MainTicket(1, 0, 2, 0, 1, "open")}
TicketSeqs == SeqsUpTo(MainTicketPool, MaxTickets)
\* What the server holds: per kind, the entities it knows and their names.
Servers == [org : Responses("org"), usr : Responses("usr"), grp : Responses("grp")]
NoCaches == [org |-> <<>>, usr |-> <<>>, grp |-> <<>>]

\* The order of main's stages.
StageAfterWritingEarly(st) ==
    IF st = "whoami" THEN "windows"
    ELSE IF st = "windows" THEN "harvest"
    ELSE IF st = "harvest" THEN "write"
    ELSE IF st = "write" THEN "raw"
    ELSE IF st = "raw" THEN "chunks"
    ELSE "done"
StageAfter(st) ==
    IF st = "whoami" THEN "windows"
    ELSE IF st = "windows" THEN "harvest"
    ELSE IF st = "harvest" THEN "chunks"
    ELSE IF st = "chunks" THEN "write"
    ELSE IF st = "write" THEN "raw"
    ELSE "done"

\* aTickets[i:i+nChunkSize]
MainSlice(tk, i, n) == SubSeq(tk, i + 1, Min(i + n, Len(tk)))
\* The ids one _fetch_batch call of a preload sends: those of the chunk
\* that the kind's cache lacks (lines 141-143).
LookupIds(chunk, cache, kind) ==
    {i \in FieldIds(chunk, KindFields(kind)) : i \notin DOMAIN cache[kind]}
\* The server's answer to a lookup: the entities it knows among the ids asked.
Answer(kind, ids) ==
    [j \in {k \in DOMAIN dServer[kind] : Str(k) \in ids} |-> dServer[kind][j]]
\* res.preload_from_tickets(aChunk), every lookup succeeding.
Preload(chunk, cache) ==
    [kind \in Kinds |->
        IF LookupIds(chunk, cache, kind) = {} THEN cache[kind]
        ELSE Merge(cache[kind], Answer(kind, LookupIds(chunk, cache, kind)))]
LookupKinds(chunk, cache) == {kind \in Kinds : LookupIds(chunk, cache, kind) # {}}
\* The caches the rows of a chunk are built from: those after its preload.
CachesBeforePreload(before, after) == before
CachesForRows(before, after) == after
\* Lines 469-480: the standard cells of one row.
StdRow(t, cache) ==
    [ID |-> t.id,
     Organization |-> CacheGet(cache.org, t.organization_id),
     Assignee |-> CacheGet(cache.usr, t.assignee_id),
     Group |-> CacheGet(cache.grp, t.group_id),
     Status |-> NameOrEmpty(t.status)]
\* The inner loop of lines 463-498 over one chunk.
RECURSIVE ChunkRows(_, _, _, _)
ChunkRows(chunk, cache, sn, rows) ==
    IF chunk = <<>> THEN [dSeen |-> sn, aRowsOut |-> rows]
    ELSE LET t == Head(chunk)
         IN  IF t.id \in sn
               THEN ChunkRows(Tail(chunk), cache, sn, rows)
               ELSE ChunkRows(Tail(chunk), cache, sn \cup {t.id}, Append(rows, StdRow(t, cache)))
\* The test of `for i in range(0, len(aTickets), nChunkSize)`.
LoopOrOn(i, tk) == IF i < Len(tk) THEN "chunks" ELSE StageAfter("chunks")

\* Line 438-443: the who-am-I request succeeded; bUser: it names a user id.
WhoAmI(bUser) ==
    /\ mPc = "whoami"
    /\ aReqs' = Append(aReqs, "whoami")
    /\ mPc' = IF bUser THEN StageAfter("whoami") ELSE "exit"
    /\ UNCHANGED <<nChunkSize, dServer, aTickets, iMain, dSeen, aRowsOut, dCache, aFiles, sFatal>>
    /\ UNCHANGED <<httpVars, planVars, harvVars, resVars, linkVars, projVars>>
\* Line 445: buildWindowsUtc returns windows or exits.
MainWindows(bOk) ==
    /\ mPc = "windows"
    /\ mPc' = IF bOk THEN StageAfter("windows") ELSE "exit"
    /\ UNCHANGED <<nChunkSize, dServer, aTickets, iMain, dSeen, aRowsOut, dCache, aFiles, aReqs, sFatal>>
    /\ UNCHANGED <<httpVars, planVars, harvVars, resVars, linkVars, projVars>>
\* Line 447: the harvest succeeded: its search pages and, when they
\* reported ids (bBulk), its show_many requests; it returned tk.
MainHarvest(tk, bBulk) ==
    /\ mPc = "harvest"
    /\ ~bBulk => tk = <<>>
    /\ aReqs' = aReqs \o <<"search">> \o (IF bBulk THEN <<"bulk">> ELSE <<>>)
    /\ aTickets' = tk
    /\ iMain' = 0
    /\ mPc' = IF StageAfter("harvest") = "chunks" THEN LoopOrOn(0, tk) ELSE StageAfter("harvest")
    /\ UNCHANGED <<nChunkSize, dServer, dSeen, aRowsOut, dCache, aFiles, sFatal>>
    /\ UNCHANGED <<httpVars, planVars, harvVars, resVars, linkVars, projVars>>
\* One pass of the chunk loop, lines 459-499, every lookup succeeding.
MainChunk ==
    /\ mPc = "chunks"
    /\ iMain < Len(aTickets)
    /\ LET aChunkM == MainSlice(aTickets, iMain, nChunkSize)
           after == Preload(aChunkM, dCache)
           r == ChunkRows(aChunkM, CachesForRows(dCache, after), dSeen, aRowsOut)
       IN  /\ dCache' = after
           /\ aReqs' = aReqs \o [k \in 1..Cardinality(LookupKinds(aChunkM, dCache)) |-> "lookup"]
           /\ dSeen' = r.dSeen
           /\ aRowsOut' = r.aRowsOut
    /\ iMain' = iMain + nChunkSize
    /\ mPc' = LoopOrOn(iMain', aTickets)
    /\ UNCHANGED <<nChunkSize, dServer, aTickets, aFiles, sFatal>>
    /\ UNCHANGED <<httpVars, planVars, harvVars, resVars, linkVars, projVars>>
\* Line 507: writeOutput opens the CSV and, with --xlsx, the workbook.
WriteOutput(bXlsx) ==
    /\ mPc = "write"
    /\ aFiles' = aFiles \cup {"csv"} \cup (IF bXlsx THEN {"xlsx"} ELSE {})
    /\ mPc' = StageAfter("write")
    /\ UNCHANGED <<nChunkSize, dServer, aTickets, iMain, dSeen, aRowsOut, dCache, aReqs, sFatal>>
    /\ UNCHANGED <<httpVars, planVars, harvVars, resVars, linkVars, projVars>>
\* Lines 509-515: the raw dump, when there are tickets.
RawDump ==
    /\ mPc = "raw"
    /\ aFiles' = aFiles \cup (IF aTickets # <<>> THEN {"raw"} ELSE {})
    /\ mPc' = IF StageAfter("raw") = "chunks" THEN LoopOrOn(iMain, aTickets) ELSE StageAfter("raw")
    /\ UNCHANGED <<nChunkSize, dServer, aTickets, iMain, dSeen, aRowsOut, dCache, aReqs, sFatal>>
    /\ UNCHANGED <<httpVars, planVars, harvVars, resVars, linkVars, projVars>>
\* A _get_json call of the current stage ends in sys.exit(1): who-am-I, a
\* search page or bulk fetch of the harvest, or a lookup of the chunk's preload.
MainFatal ==
    /\ \/ mPc \in {"whoami", "harvest"}
       \/ /\ mPc = "chunks"
          /\ iMain < Len(aTickets)
          /\ LookupKinds(MainSlice(aTickets, iMain, nChunkSize), dCache) # {}
    /\ sFatal' = mPc
    /\ mPc' = "exit"
    /\ UNCHANGED <<nChunkSize, dServer, aTickets, iMain, dSeen, aRowsOut, dCache, aFiles, aReqs>>
    /\ UNCHANGED <<httpVars, planVars, harvVars, resVars, linkVars, projVars>>
MainInit ==
    /\ mPc = "whoami"
    /\ nChunkSize \in 1..MaxChunkSize
    /\ dServer \in Servers
    /\ aTickets = <<>>
    /\ iMain = 0
    /\ dSeen = {}
    /\ aRowsOut = <<>>
    /\ dCache = NoCaches
    /\ aFiles = {}
    /\ aReqs = <<>>
    /\ sFatal = ""
MainOff ==
    /\ mPc = "off"
    /\ nChunkSize = 0
    /\ dServer = NoCaches
    /\ aTickets = <<>>
    /\ iMain = 0
    /\ dSeen = {}
    /\ aRowsOut = <<>>
    /\ dCache = NoCaches
    /\ aFiles = {}
    /\ aReqs = <<>>
    /\ sFatal = ""

(***************************************************************************)
(* Components that a specification leaves out                              *)
(***************************************************************************)
PlanOff ==
    /\ pPc = "off"
    /\ sDateExpr = <<>>
    /\ sStartTime = NoTime
    /\ sEndTime = NoTime
    /\ nowMnl = [day |-> 0, minute |-> 0]
    /\ aOut = <<>>
    /\ nBranch = 0
    /\ pErr = ""

HarvOff ==
    /\ vPc = "off"
    /\ nWindows = 0
    /\ iWin = 0
    /\ sPage = FALSE
    /\ nPages = 0
    /\ seen = {}
    /\ aIds = <<>>
    /\ iChunk = 0
    /\ aAll = <<>>
    /\ vMatched = {}
    /\ aBulkReqs = <<>>
    /\ aSearchLog = <<>>

ResOff ==
    /\ rPc = "off"
    /\ org = <<>>
    /\ usr = <<>>
    /\ grp = <<>>
    /\ aChunk = <<>>
    /\ aPend = [org |-> {}, usr |-> {}, grp |-> {}]
    /\ aLookups = <<>>
    /\ aSent = [org |-> {}, usr |-> {}, grp |-> {}]
    /\ aRead = NoRead

AuxOff == LinkOff /\ ProjOff /\ MainOff

InitHttp == HttpInit /\ PlanOff /\ HarvOff /\ ResOff /\ AuxOff
NextHttp == GetJson
SpecHttp == InitHttp /\ [][NextHttp]_vars
\* The loop body always runs to its next GET, return or exit: requests time
\* out after 60 s and every sleep is finite.
SpecHttpFair == SpecHttp /\ WF_vars(NextHttp)

InitPlan == HttpOff /\ PlanInit /\ HarvOff /\ ResOff /\ AuxOff
NextPlan == BuildWindowsUtc
SpecPlan == InitPlan /\ [][NextPlan]_vars

InitHarvest == HttpOff /\ PlanOff /\ HarvInit /\ ResOff /\ AuxOff
NextHarvest ==
    \/ \E page \in SearchPages : SearchPage(page)
    \/ \E dT \in BulkResponses : BulkFetch(dT)
    \/ HarvestFatal
SpecHarvest == InitHarvest /\ [][NextHarvest]_vars
\* Every _get_json call of the harvest ends (C18), so each loop goes on to
\* its next pass.
SpecHarvestFair == SpecHarvest /\ WF_vars(NextHarvest)

InitBulk == HttpOff /\ PlanOff /\ BulkInit /\ ResOff /\ AuxOff
NextBulk ==
    \/ \E dT \in BulkResponses : BulkFetch(dT)
    \/ HarvestFatal
SpecBulk == InitBulk /\ [][NextBulk]_vars

InitResolver == HttpOff /\ PlanOff /\ HarvOff /\ ResInit /\ AuxOff
NextResolver ==
    \/ \E chunk \in Chunks : PreloadCollect(chunk)
    \/ \E kind \in Kinds : \E resp \in Responses(kind) : FetchBatch(kind, resp)
    \/ PreloadReturn
    \/ \E v \in ReadArgs : org_name(v)
    \/ \E v \in ReadArgs : user_name(v)
    \/ \E v \in ReadArgs : group_name(v)
    \/ FetchFatal
SpecResolver == InitResolver /\ [][NextResolver]_vars

InitLink == HttpOff /\ PlanOff /\ HarvOff /\ ResOff /\ LinkInit /\ ProjOff /\ MainOff
NextLinkStep == NextLink
SpecLink == InitLink /\ [][NextLinkStep]_vars

InitProject == HttpOff /\ PlanOff /\ HarvOff /\ ResOff /\ LinkOff /\ ProjInit /\ MainOff
NextProject == ProjectCustom
SpecProject == InitProject /\ [][NextProject]_vars

InitMain == HttpOff /\ PlanOff /\ HarvOff /\ ResOff /\ LinkOff /\ ProjOff /\ MainInit
NextMain ==
    \/ \E bUser \in BOOLEAN : WhoAmI(bUser)
    \/ \E bOk \in BOOLEAN : MainWindows(bOk)
    \/ \E tk \in TicketSeqs : \E bBulk \in BOOLEAN : MainHarvest(tk, bBulk)
    \/ MainChunk
    \/ \E bXlsx \in BOOLEAN : WriteOutput(bXlsx)
    \/ RawDump
    \/ MainFatal
SpecMain == InitMain /\ [][NextMain]_vars

(***************************************************************************)
(* Claims about ZendeskHttp._get_json (checked under SpecHttp)             *)
(***************************************************************************)
IsBackoffFailure(o) == o.net \/ (o.status >= 500 /\ o.status <= 599)
IsRateLimited(o) == ~o.net /\ o.status = 429
IsLastAttempt(n) == n = Len(aResp)

\* C1: when attempt n < 6 ends in a transport failure or a 5xx, the call
\* sleeps exactly min(2^(n-1), 30) seconds and goes on to attempt n+1; when
\* attempt 6 ends so, the call exits ("network", resp. "server") without a
\* sleep and without a 7th request.
C1_BackoffThenRetry ==
    /\ nTry = Len(aResp)
    /\ Len(aResp) <= 6
    /\ \A n \in 1..Len(aResp) :
          IsBackoffFailure(aResp[n]) =>
              IF n < 6
                THEN /\ Len(aSleeps) >= n
                     /\ aSleeps[n] = Min(2 ^ (n - 1), 30)
                     /\ IsLastAttempt(n) => (hPc = "loop" /\ Len(aSleeps) = n)
                ELSE /\ IsLastAttempt(n)
                     /\ hPc = "exit"
                     /\ sExit = (IF aResp[n].net THEN "network" ELSE "server")
                     /\ Len(aSleeps) = 5

\* Attempt 5 failed in transport and was followed by a 16 s sleep; attempt 6
\* got a 5xx and the call exited with the server error.
C1_Witness ==
    /\ Len(aResp) = 6
    /\ aResp[5].net
    /\ aSleeps[5] = 16
    /\ aResp[6].status = 500
    /\ sExit = "server"

\* C2 (as stated): on a 429 with attempts left the call sleeps for the
\* duration the Retry-After header gives, whatever its value, or for the
\* default 2 s when it is absent or unparsable, and retries; a 429 on the
\* last attempt exits with the rate-limit error.
C2_SleepsHeaderDuration ==
    \A n \in 1..Len(aResp) :
        IsRateLimited(aResp[n]) =>
            IF n < 6
              THEN /\ Len(aSleeps) >= n
                   /\ IF aResp[n].hdr.kind = "num"
                        THEN 10 * aSleeps[n] = aResp[n].hdr.tenths
                        ELSE aSleeps[n] = 2
                   /\ IsLastAttempt(n) => hPc = "loop"
              ELSE IsLastAttempt(n) /\ hPc = "exit" /\ sExit = "ratelimit"

\* C2 (amended): the sleep is the header's value truncated to whole seconds
\* and raised to at least 1 s; 2 s when the header is absent or unparsable.
C2_SleepsClampedHeader ==
    \A n \in 1..Len(aResp) :
        IsRateLimited(aResp[n]) =>
            IF n < 6
              THEN /\ Len(aSleeps) >= n
                   /\ IF aResp[n].hdr.kind = "num"
                        THEN LET t == aResp[n].hdr.tenths
                             IN  aSleeps[n] = (IF t < 10 THEN 1 ELSE (t - (t % 10)) \div 10)
                        ELSE aSleeps[n] = 2
                   /\ IsLastAttempt(n) => (hPc = "loop" /\ Len(aSleeps) = n)
              ELSE /\ IsLastAttempt(n)
                   /\ hPc = "exit"
                   /\ sExit = "ratelimit"
                   /\ Len(aSleeps) = 5

\* A 429 with Retry-After: 2.5 was followed by a 2 s sleep, one with
\* Retry-After: 0 by a 1 s sleep, and a 429 on attempt 6 ended the call.
C2_Witness ==
    /\ Len(aResp) = 6
    /\ IsRateLimited(aResp[1]) /\ aResp[1].hdr = [kind |-> "num", tenths |-> 25]
    /\ aSleeps[1] = 2
    /\ IsRateLimited(aResp[2]) /\ aResp[2].hdr = [kind |-> "num", tenths |-> 0]
    /\ aSleeps[2] = 1
    /\ IsRateLimited(aResp[3]) /\ aResp[3].hdr.kind = "text"
    /\ IsRateLimited(aResp[6])
    /\ sExit = "ratelimit"

\* The first k answers are 429 with Retry-After h, answer k+1 is a 200 with
\* a parseable body.
RateLimitedThenOk(k, h) ==
    /\ Len(aResp) = k + 1
    /\ \A i \in 1..k : IsRateLimited(aResp[i]) /\ aResp[i].hdr = h
    /\ ~aResp[k + 1].net /\ aResp[k + 1].status = 200 /\ aResp[k + 1].json

\* C3 (as stated): after k < 6 answers of 429 with Retry-After: s and then a
\* 200 with a parseable body, the call returns on attempt k+1 and has slept
\* at least k*s seconds in total.
C3_SleptAtLeastKS ==
    \A k \in 0..5 : \A t \in RetryAfterTenths :
        RateLimitedThenOk(k, [kind |-> "num", tenths |-> t]) =>
            /\ hPc = "returned"
            /\ nTry = k + 1
            /\ 10 * SumSeq(aSleeps) >= k * t

\* C3 (amended): the call returns on attempt k+1 and has slept exactly
\* k * max(1, floor(s)) seconds, which is at least k*s when s is a whole
\* number of seconds.
C3_SleptKTimesClamped ==
    \A k \in 0..5 : \A t \in RetryAfterTenths :
        RateLimitedThenOk(k, [kind |-> "num", tenths |-> t]) =>
            /\ hPc = "returned"
            /\ nTry = k + 1
            /\ Len(aSleeps) = k
            /\ SumSeq(aSleeps) = k * (IF t < 10 THEN 1 ELSE (t - (t % 10)) \div 10)
            /\ (t % 10 = 0) => 10 * SumSeq(aSleeps) >= k * t

\* Two 429s with Retry-After: 3, then a 200: returned on attempt 3 after
\* 3 + 3 seconds of sleep.
C3_Witness ==
    /\ RateLimitedThenOk(2, [kind |-> "num", tenths |-> 30])
    /\ hPc = "returned"
    /\ aSleeps = <<3, 3>>

\* C4: a 401 or 403 on any attempt ends the call at once with the
\* authentication error: it is the last request and no sleep follows it.
C4_AuthFailsImmediately ==
    \A n \in 1..Len(aResp) :
        (~aResp[n].net /\ aResp[n].status \in {401, 403}) =>
            /\ IsLastAttempt(n)
            /\ nTry = n
            /\ hPc = "exit"
            /\ sExit = "auth"
            /\ Len(aSleeps) = n - 1

\* A 403 on attempt 3, after two retried failures, ended the call.
C4_Witness ==
    /\ Len(aResp) = 3
    /\ aResp[3].status = 403
    /\ hPc = "exit"
    /\ Len(aSleeps) = 2

\* C5 (as stated): every response whose status is outside 2xx and is not
\* 429, 5xx, 401 or 403 ends the call at once with the HTTP error, and the
\* call never returns a document for a non-2xx response.
C5_OtherStatusFails ==
    /\ \A n \in 1..Len(aResp) :
          ( /\ ~aResp[n].net
            /\ ~(aResp[n].status >= 200 /\ aResp[n].status <= 299)
            /\ aResp[n].status \notin {429, 401, 403}
            /\ ~(aResp[n].status >= 500 /\ aResp[n].status <= 599) ) =>
              /\ IsLastAttempt(n)
              /\ hPc = "exit"
              /\ sExit = "http"
              /\ Len(aSleeps) = n - 1
    /\ hPc = "returned" =>
          (aResp[Len(aResp)].status >= 200 /\ aResp[Len(aResp)].status <= 299)

(***************************************************************************)
(* Claims about buildWindowsUtc (checked under SpecPlan)                   *)
(***************************************************************************)
\* A date expression and no time window.
DateOnlyCall == Len(sDateExpr) > 0 /\ sStartTime = NoTime /\ sEndTime = NoTime
\* No date expression and no time window.
DefaultCall == sDateExpr = <<>> /\ sStartTime = NoTime /\ sEndTime = NoTime
NowUtc == CombineUtc(nowMnl.day, nowMnl.minute, 0)

\* C7 (as stated): for every accepted date expression of N terms without a
\* time window, exactly N windows are returned, the i-th from the i-th
\* term (00:00:00 of its start date to 23:59:59 of its end date), and every
\* window has startUtc < endUtc.
C7_OneWindowPerTerm ==
    (pPc = "returned" /\ DateOnlyCall) =>
        /\ Len(aOut) = Len(sDateExpr)
        /\ \A i \in 1..Len(aOut) :
              /\ aOut[i].startUtc = CombineUtc(StrpDate(sDateExpr[i].d0), 0, 0)
              /\ aOut[i].endUtc = CombineUtc(StrpDate(sDateExpr[i].d1), 23 * 60 + 59, 59)
              /\ aOut[i].startUtc < aOut[i].endUtc

\* C8 (as stated): the default shift window contains the current instant.
C8_DefaultWindowContainsNow ==
    (pPc = "returned" /\ DefaultCall) =>
        /\ Len(aOut) = 1
        /\ aOut[1].startUtc <= NowUtc
        /\ NowUtc <= aOut[1].endUtc

\* C9: the default selection is total: every call without arguments
\* returns exactly one window from exactly one of four branches, and the
\* branches split the day into [00:00, 01:30), [01:30, 09:30),
\* [09:30, 18:30) and [18:30, 24:00), with no gap and no overlap.
C9_ShiftSelectionTotal ==
    (DefaultCall /\ pPc # "call") =>
        /\ pPc = "returned"
        /\ Len(aOut) = 1
        /\ nBranch \in 1..4
        /\ (nBranch = 1) <=> (nowMnl.minute \in 0..89)
        /\ (nBranch = 2) <=> (nowMnl.minute \in 90..569)
        /\ (nBranch = 3) <=> (nowMnl.minute \in 570..1109)
        /\ (nBranch = 4) <=> (nowMnl.minute \in 1110..1439)
        /\ aOut[1].label = (IF nBranch = 1 THEN "afternoon"
                            ELSE IF nBranch = 2 THEN "evening" ELSE "morning")

\* At 09:30 sharp the third branch ran and returned its window.
C9_Witness ==
    /\ DefaultCall
    /\ pPc = "returned"
    /\ nowMnl.minute = 570
    /\ nBranch = 3
    /\ Len(aOut) = 1

(***************************************************************************)
(* Claims about harvestTicketsInWindows (checked under SpecHarvest)        *)
(***************************************************************************)
\* How often the raw id occurs among the ids of a list of tickets, resp.
\* its text among a list of id texts.
Occurrences(q, x) == Cardinality({i \in 1..Len(q) : q[i] = x})
MatchedIds == {m[2] : m \in vMatched}
MatchedTwice == {x \in RawIds : \E w1, w2 \in 1..nWindows :
                                   w1 # w2 /\ <<w1, x>> \in vMatched /\ <<w2, x>> \in vMatched}

\* C6 (as stated): whatever the pages and the bulk responses hold, the
\* returned sequence contains each record id at most once, and an id
\* matched by two windows exactly once.
C6_ReturnedHasNoDuplicates ==
    vPc = "returned" =>
        /\ \A x \in RawIds : Occurrences([i \in 1..Len(aAll) |-> aAll[i].id], x) <= 1
        /\ \A x \in MatchedTwice : Occurrences([i \in 1..Len(aAll) |-> aAll[i].id], x) = 1

\* C6 (amended): the list of ids collected from the search pages, which is
\* what the bulk requests carry, holds exactly one entry for each distinct
\* id value that some page reported as a ticket, however many pages or
\* windows reported it, and nothing else.
C6_CollectedIdsDistinct ==
    /\ seen = MatchedIds
    /\ Len(aIds) = Cardinality(MatchedIds)
    /\ \A x \in RawIds :
          Occurrences(aIds, StrId(x)) = Cardinality({y \in MatchedIds : StrId(y) = StrId(x)})
    /\ \A k \in 1..Len(aBulkReqs) :
          aBulkReqs[k] = SubSeq(aIds, 100 * (k - 1) + 1, Min(100 * k, Len(aIds)))

\* Both windows matched record 41; it was collected once and requested
\* once.
C6_Witness ==
    /\ vPc = "returned"
    /\ [t |-> "int", v |-> 41] \in MatchedTwice
    /\ Occurrences(aIds, "41") = 1
    /\ Len(aBulkReqs) = 1
    /\ Occurrences(aBulkReqs[1], "41") = 1

(***************************************************************************)
(* Claims about Resolver (checked under SpecResolver)                      *)
(***************************************************************************)
\* C10 (as stated): an id of a kind that was sent in one batched lookup is
\* never sent in a later lookup of that kind, whatever the server answered.
C10_NeverSentTwice ==
    [][\A kind \in Kinds :
          (aSent'[kind] # aSent[kind] \/ Len(aLookups') > Len(aLookups)) =>
              \A i \in 1..Len(aLookups') :
                  (i > Len(aLookups) /\ aLookups'[i].kind = kind) =>
                      aLookups'[i].ids \cap aSent[kind] = {}]_vars

(***************************************************************************)
(* Claims about Resolver.preload_from_tickets, continued                   *)
(***************************************************************************)
\* The non-empty ids of a kind that the running call's chunk holds and that
\* kind's cache lacks.
ChunkMissing(kind) ==
    {i \in FieldIds(aChunk, KindFields(kind)) : i \notin DOMAIN Cache(kind)}
LookupsOf(kind) == {i \in 1..Len(aLookups) : aLookups[i].kind = kind}

\* C11: within one preload_from_tickets call, the step for each kind sends
\* exactly one lookup when the chunk holds a non-empty id of that kind that
\* the kind's cache lacks, and none otherwise; the lookup carries exactly
\* those ids (a set, so pairwise distinct), none empty and none a cache key;
\* the caches of the other kinds are untouched by the step, so the cache a
\* kind's step reads is the one the call started with.
C11_OneLookupPerKind ==
    [][/\ (rPc = "idle" /\ rPc' = "org") =>
            /\ aLookups' = <<>>
            /\ org' = org /\ usr' = usr /\ grp' = grp
       /\ (rPc \in Kinds /\ rPc' # "exit") =>
            LET kind == rPc
                need == ChunkMissing(kind)
            IN  /\ rPc' = NextFetch(kind)
                /\ "" \notin need
                /\ need \cap DOMAIN Cache(kind) = {}
                /\ IF need = {}
                     THEN aLookups' = aLookups
                     ELSE aLookups' = Append(aLookups, [kind |-> kind, ids |-> need])
                /\ kind # "org" => org' = org
                /\ kind # "usr" => usr' = usr
                /\ kind # "grp" => grp' = grp]_vars
\* A finished call that sent two lookups and skipped the third kind although
\* the chunk holds ids of it, all of them cached.
C11_Witness ==
    /\ rPc = "done"
    /\ Len(aLookups) = 2
    /\ \E kind \in Kinds :
           /\ LookupsOf(kind) = {}
           /\ FieldIds(aChunk, KindFields(kind)) # {}

\* C12: org_name, user_name and group_name return the cached name when the
\* text of the id is a key of their cache and "" otherwise, send no request
\* and leave the three caches as they were.
C12_NameReadsArePure ==
    [][(rPc = "idle" /\ rPc' = "idle") =>
          /\ aRead'.kind \in Kinds
          /\ LET c == Cache(aRead'.kind)
                  k == Str(aRead'.v)
              IN  aRead'.name = IF k \in DOMAIN c THEN c[k] ELSE ""
          /\ org' = org /\ usr' = usr /\ grp' = grp
          /\ aLookups' = aLookups /\ aSent' = aSent
          /\ httpVars' = httpVars]_vars
\* A read that hit a cached name while another kind's cache lacks the same id.
C12_Witness ==
    /\ aRead.kind \in Kinds
    /\ aRead.name = "Acme"
    /\ \E kind \in Kinds : Str(aRead.v) \notin DOMAIN Cache(kind)

(***************************************************************************)
(* Claims about buildWindowsUtc, continued (checked under SpecPlan)        *)
(***************************************************************************)
\* Both times given, both parse, the end after the start.
ValidTimeWindow ==
    /\ sStartTime.kind = "time" /\ sEndTime.kind = "time"
    /\ StrpTime(sEndTime) > StrpTime(sStartTime)
\* A date expression every term of which has the YYYY-MM-DD TO YYYY-MM-DD form.
WellFormedDateExpr ==
    /\ Len(sDateExpr) > 0
    /\ \A i \in 1..Len(sDateExpr) : sDateExpr[i].kind = "range"

\* C14 (as stated): a call with a valid time window and a date expression
\* exits when the expression has more than one sub-range, exits when the
\* single sub-range's start and end dates differ, and otherwise returns
\* exactly one window: that date combined with the wall-clock range.
C14_TimeWithDate ==
    (pPc # "call" /\ ValidTimeWindow /\ WellFormedDateExpr) =>
        IF Len(sDateExpr) > 1
          THEN pPc = "exit" /\ pErr = "AmbiguousDateCount"
        ELSE IF sDateExpr[1].d0 # sDateExpr[1].d1
          THEN pPc = "exit" /\ pErr = "MultiDayRangeWithTime"
        ELSE /\ pPc = "returned"
             /\ aOut = <<Window(CombineUtc(StrpDate(sDateExpr[1].d0), StrpTime(sStartTime), 0),
                                CombineUtc(StrpDate(sDateExpr[1].d0), StrpTime(sEndTime), 0),
                                "date+time")>>

(***************************************************************************)
(* Claims about ZendeskHttp.next_link (checked under SpecLink)             *)
(***************************************************************************)
\* links is an object whose "next" member is a non-empty text.
HasPrimary == dJ.links.kind = "dict" /\ dJ.links.next \in Urls

\* C15: next_link returns links.next when it is present and non-empty,
\* otherwise the next_page member when the document has one (its value, a
\* null one being none), and none when it has neither; so the secondary
\* member is never returned in place of a non-empty primary link.
C15_PrimaryThenSecondary ==
    lPc = "returned" =>
        IF HasPrimary THEN sL = dJ.links.next
        ELSE IF dJ.next_page # Absent
          THEN sL = (IF dJ.next_page = Null THEN None ELSE dJ.next_page)
        ELSE sL = None
\* Both members hold a link, different ones, and the primary one came back.
C15_Witness ==
    /\ lPc = "returned"
    /\ HasPrimary
    /\ dJ.next_page \in Urls \ {dJ.links.next}
    /\ sL = dJ.links.next

(***************************************************************************)
(* Claims about ZendeskHttp._get_json, continued (checked under            *)
(* SpecHttpFair)                                                           *)
(***************************************************************************)
FatalErrors == {"network", "ratelimit", "server", "auth", "http", "json"}
\* The resources one invocation has used, in every state of it.
WithinRetryBudget ==
    /\ nTry = Len(aResp)
    /\ Len(aResp) <= 6
    /\ Len(aSleeps) <= 5
    /\ Len(aSleeps) = Len(aResp) - (IF hPc = "loop" THEN 0 ELSE 1)
    /\ hPc = "loop" => Len(aResp) < 6 /\ sExit = ""
    /\ hPc = "returned" => sExit = ""
    /\ hPc = "exit" => sExit \in FatalErrors

\* C18: whatever the outcomes of its GETs, one invocation of _get_json
\* issues at most 6 GETs and sleeps at most 5 times, one counter counting
\* the attempts of every failure kind (each attempt but the last is followed
\* by one sleep), and it ends: by returning a document, or in one fatal error.
C18_TerminatesWithinBudget ==
    /\ []WithinRetryBudget
    /\ <>(hPc \in {"returned", "exit"})
\* The sixth GET failed after five sleeps, the failures being of all three
\* retried kinds.
C18_Witness ==
    /\ hPc = "exit"
    /\ Len(aResp) = 6
    /\ Len(aSleeps) = 5
    /\ \E i, j, k \in 1..6 :
           /\ aResp[i].net
           /\ IsRateLimited(aResp[j])
           /\ ~aResp[k].net /\ aResp[k].status = 500

(***************************************************************************)
(* Claims about harvestTicketsInWindows, continued (checked under          *)
(* SpecHarvestFair)                                                        *)
(***************************************************************************)
\* The search requests so far follow the windows in order, each window's
\* cursor chain to its end; and no show_many request was sent before the
\* chain of the last window ended.
SearchesInOrder ==
    /\ aSearchLog # <<>> => aSearchLog[1].win = 1 /\ aSearchLog[1].page = 0
    /\ \A i \in 1..(Len(aSearchLog) - 1) :
          IF aSearchLog[i].next
            THEN /\ aSearchLog[i + 1].win = aSearchLog[i].win
                 /\ aSearchLog[i + 1].page = aSearchLog[i].page + 1
            ELSE /\ aSearchLog[i + 1].win = aSearchLog[i].win + 1
                 /\ aSearchLog[i + 1].page = 0
    /\ aBulkReqs # <<>> =>
          /\ aSearchLog # <<>>
          /\ aSearchLog[Len(aSearchLog)].win = nWindows
          /\ ~aSearchLog[Len(aSearchLog)].next

\* C19: the harvest requests the pages of the windows in the given order,
\* each window's first page and then every page next_link leads to until it
\* returns none, before any page of the next window; no show_many request
\* precedes the end of the last window's pages, and none of a search page
\* follows one; with finite cursor chains the harvest ends, by returning
\* when every request succeeded.
C19_WindowsInOrderAndTerminates ==
    /\ []SearchesInOrder
    /\ [][aBulkReqs # <<>> => aSearchLog' = aSearchLog]_vars
    /\ <>(vPc \in {"returned", "exit"})
\* Two windows of two pages each were searched and the bulk fetch followed.
C19_Witness ==
    /\ vPc = "returned"
    /\ nWindows = 2
    /\ Len(aSearchLog) = 4
    /\ aSearchLog[2].win = 1 /\ aSearchLog[3].win = 2
    /\ aBulkReqs # <<>>

(***************************************************************************)
(* Claims about the bulk-fetch stage (checked under SpecBulk)              *)
(***************************************************************************)
RECURSIVE Concat(_)
Concat(qs) == IF qs = <<>> THEN <<>> ELSE Head(qs) \o Concat(Tail(qs))
CeilDiv(n, d) == (n + d - 1) \div d

\* C20: with n ids collected, the show_many requests sent so far carry, in
\* order, a prefix of the collected list, each of them between 1 and 100
\* ids; when the harvest returns, ceil(n/100) requests were sent (none and
\* the empty sequence for n = 0) and together they carry the whole list, so
\* each collected id is in exactly one request, in first-observed order.
C20_BulkRequestsPartitionIds ==
    /\ \A k \in 1..Len(aBulkReqs) : Len(aBulkReqs[k]) \in 1..100
    /\ Len(aBulkReqs) <= CeilDiv(Len(aIds), 100)
    /\ Concat(aBulkReqs) = SubSeq(aIds, 1, Len(Concat(aBulkReqs)))
    /\ vPc = "returned" =>
          /\ Len(aBulkReqs) = CeilDiv(Len(aIds), 100)
          /\ Concat(aBulkReqs) = aIds
          /\ aIds = <<>> => aAll = <<>>
\* 201 ids went out in three requests of 100, 100 and 1.
C20_Witness ==
    /\ vPc = "returned"
    /\ Len(aIds) = 201
    /\ Len(aBulkReqs) = 3
    /\ Len(aBulkReqs[1]) = 100 /\ Len(aBulkReqs[2]) = 100 /\ Len(aBulkReqs[3]) = 1

(***************************************************************************)
(* Claims about the custom-field cells (checked under SpecProject)         *)
(***************************************************************************)
\* The positions of the ticket's custom fields whose id, as text, is sId.
MatchingFields(sId) ==
    {k \in 1..Len(aCustom.items) : StrId(aCustom.items[k].id) = sId}
FirstMatchingValue(sId) ==
    aCustom.items[CHOOSE k \in MatchingFields(sId) : \A j \in MatchingFields(sId) : k <= j].value

\* C17 (as stated): for every FieldSpec with a non-empty id the row's cell
\* under its display name is the value of the first custom field whose
\* str(id) equals it, "" when there is none or that value is null; for
\* every FieldSpec with an empty id the cell is "".
C17_CellIsFirstMatch ==
    jPc = "returned" =>
        \A i \in 1..Len(aFlds) :
            dRow[aFlds[i].name] =
                IF aFlds[i].id = "" \/ MatchingFields(aFlds[i].id) = {} THEN ""
                ELSE IF FirstMatchingValue(aFlds[i].id) = Null THEN ""
                ELSE FirstMatchingValue(aFlds[i].id)

(***************************************************************************)
(* Claims about main (checked under SpecMain)                              *)
(***************************************************************************)
\* A file is open only after the who-am-I and harvest requests succeeded
\* and no request failed; a run that a request ended has no file.
OutputOnlyAfterRequests ==
    /\ aFiles # {} =>
          /\ sFatal = "" /\ mPc # "exit"
          /\ \E i, j \in 1..Len(aReqs) : aReqs[i] = "whoami" /\ aReqs[j] = "search"
          /\ iMain >= Len(aTickets)
    /\ sFatal # "" => mPc = "exit" /\ aFiles = {}

\* C13: main opens no output file (CSV, XLSX, raw dump) before every
\* request of the run has succeeded: once a file is open no request
\* follows, successful or fatal, the chunk loop is over, and a run ended by
\* a fatal request has opened no file.
C13_NoOutputBeforeRequestsDone ==
    /\ []OutputOnlyAfterRequests
    /\ [][aFiles # {} => (aReqs' = aReqs /\ sFatal' = sFatal)]_vars
\* All three files were written after who-am-I, search, bulk fetch and
\* two or more lookups.
C13_Witness ==
    /\ mPc = "done"
    /\ aFiles = {"csv", "xlsx", "raw"}
    /\ Len(aReqs) >= 5
    /\ aReqs[Len(aReqs)] = "lookup"

\* The name the server has for a foreign key: "" for a missing key, an
\* unknown entity or an entity without a name.
ServerName(kind, v) ==
    IF v # 0 /\ v \in DOMAIN dServer[kind] THEN NameOrEmpty(dServer[kind][v]) ELSE ""
\* The tickets whose id no earlier ticket has, in order.
RECURSIVE FirstOccurrences(_, _)
FirstOccurrences(tk, sn) ==
    IF tk = <<>> THEN <<>>
    ELSE IF Head(tk).id \in sn THEN FirstOccurrences(Tail(tk), sn)
    ELSE <<Head(tk)>> \o FirstOccurrences(Tail(tk), sn \cup {Head(tk).id})
\* The rows of the harvested tickets, said without chunks.
ReferenceRows ==
    LET ft == FirstOccurrences(aTickets, {})
    IN  [k \in 1..Len(ft) |->
            [ID |-> ft[k].id,
             Organization |-> ServerName("org", ft[k].organization_id),
             Assignee |-> ServerName("usr", ft[k].assignee_id),
             Group |-> ServerName("grp", ft[k].group_id),
             Status |-> IF ft[k].status = Null THEN "" ELSE ft[k].status]]

\* C16: for the same harvested tickets and the same server, the rows the
\* chunk loop has built when it ends are the same for every chunk size:
\* one row per ticket id in first-seen order, with the names the server has
\* for its organization, assignee and group.
C16_RowsIndependentOfChunkSize ==
    (mPc \in {"write", "raw", "done"}) => aRowsOut = ReferenceRows
\* A run with chunks of one ticket: three tickets, the third a repeat of
\* the first, two rows, the first with names of all three kinds.
C16_Witness ==
    /\ mPc = "done"
    /\ nChunkSize = 1
    /\ Len(aTickets) = 3
    /\ Len(aRowsOut) = 2
    /\ aRowsOut[1].Organization = "Acme"
    /\ aRowsOut[1].Assignee = "Acme"
    /\ aRowsOut[1].Group = "Acme"

(***************************************************************************)
(* Claims about the Resolver caches (checked under SpecResolver)           *)
(***************************************************************************)
\* C21: no step of preload_from_tickets, org_name, user_name or group_name
\* removes a key from one of the three caches, and a cache changes only in
\* the lookup step of its own kind, which leaves the two others as they were.
C21_CachesGrowIndependently ==
    [][/\ DOMAIN org \subseteq DOMAIN org'
       /\ DOMAIN usr \subseteq DOMAIN usr'
       /\ DOMAIN grp \subseteq DOMAIN grp'
       /\ org' # org => (rPc = "org" /\ usr' = usr /\ grp' = grp)
       /\ usr' # usr => (rPc = "usr" /\ org' = org /\ grp' = grp)
       /\ grp' # grp => (rPc = "grp" /\ org' = org /\ usr' = usr)]_vars
\* After preloads that filled all three caches, the user cache with both
\* user ids, a name was read.
C21_Witness ==
    /\ rPc = "idle"
    /\ DOMAIN org # {} /\ DOMAIN grp # {}
    /\ Cardinality(DOMAIN usr) = 2
    /\ Cardinality(aSent.usr) = 2
    /\ aRead.kind \in Kinds

====
